---- MODULE Spec2Model ----
(***************************************************************************)
(* Password generation engine of adv-pwd-gen (src/password.rs) and the    *)
(* retry loop around it, as a state machine.                               *)
(*                                                                         *)
(* Characters are bytes (ASCII codes).  The generator owns four pools; an *)
(* attempt (try_generate) fills one position per step: next_class picks   *)
(* the class, sample_unique_char picks the character.  Every value read   *)
(* from OsRng is a nondeterministic choice.                                *)
(*                                                                         *)
(* Four specifications share the module:                                   *)
(*   Spec        the engine, position by position, on shortened pools;     *)
(*   MainSpec    the command line program (src/main.rs) around generate;   *)
(*   TrackerSpec the three UniqueSet backends fed the same bytes;          *)
(*   SamplerSpec sample_unique_char, probe by probe.                       *)
(* Each leaves the variables of the others at their initial values.        *)
(***************************************************************************)
EXTENDS Integers, Sequences, FiniteSets, TLC

VARIABLES
    gen,          \* the Generator: its four pools and max_attempts
    pc,           \* "idle" | "loop" | "try_generate" | "done"; in MainSpec
                  \* also "main" | "batch" | "exit"
    length,       \* argument of the running generate call
    attempts,     \* iterations of generate's for loop started so far
    dead_ends,    \* try_generate calls of this generate call that returned None
    outcome,      \* "None" | "Ok" | "UnsatisfiableLength" | "ExhaustedAttempts"
    password,     \* the bytes of the returned String (<<>> unless outcome = "Ok")
    drew,         \* TRUE once rng.next_u64() has been called in this generate call
    used,         \* try_generate: UniqueSet.data, 32 bytes
    result,       \* try_generate: Vec<u8>
    prev_class,   \* try_generate: Option<CharClass>
    class_used,   \* try_generate: [bool; 4]
    position,     \* try_generate: loop variable
    args,         \* main: the command line, one Option per flag
    config,       \* main: the Config that Config::parse returned
    iter,         \* main: passes of the batch loop completed
    stdout,       \* main: for each line printed, the pass that printed it
    exit_code,    \* main: the ExitCode returned, -1 while main runs
    results,      \* main: what each generate call returned, in call order
    tracker,      \* TrackerSpec: UniqueSet.data of one set per backend
    t_in,         \* TrackerSpec: the byte last inserted, -1 before the first
    t_ret,        \* TrackerSpec: what that insert returned, per backend
    s_class,      \* SamplerSpec: the class argument of sample_unique_char
    s_before,     \* SamplerSpec: the tracker at the call
    probes,       \* SamplerSpec: passes of the probe loop made
    s_ret         \* SamplerSpec: <<>> while the call runs, then <<[ok, ch]>>

attemptVars == <<used, result, prev_class, class_used, position>>

engineVars == <<gen, pc, length, attempts, dead_ends, outcome, password, drew,
                attemptVars>>

mainVars == <<args, config, iter, stdout, exit_code, results>>

trackerVars == <<tracker, t_in, t_ret>>

samplerVars == <<s_class, s_before, probes, s_ret>>

vars == <<engineVars, mainVars, trackerVars, samplerVars>>

(***************************************************************************)
(* Bounds of the model.  The pools are the leading characters of the      *)
(* program's pools; the retry bound ranges over 0..MaxAttempts and the    *)
(* requested length over 0..MaxLength, which passes what the pools hold.  *)
(***************************************************************************)
NUpper == 2
NLower == 1
NDigit == 1
NSpecial == 1
MaxAttempts == 2
MaxLength == 6

(***************************************************************************)
(* Program constants.                                                      *)
(***************************************************************************)
UPPERCASE == <<65, 66, 67, 68, 69, 70, 71, 72, 73, 74, 75, 76, 77,
               78, 79, 80, 81, 82, 83, 84, 85, 86, 87, 88, 89, 90>>
LOWERCASE == <<97, 98, 99, 100, 101, 102, 103, 104, 105, 106, 107, 108, 109,
               110, 111, 112, 113, 114, 115, 116, 117, 118, 119, 120, 121, 122>>
DIGITS == <<48, 49, 50, 51, 52, 53, 54, 55, 56, 57>>
\* ~!@#$%^&*()-_=+[];:,.<>/?\|
SPECIAL == <<126, 33, 64, 35, 36, 37, 94, 38, 42, 40, 41, 45, 95, 61,
             43, 91, 93, 59, 58, 44, 46, 60, 62, 47, 63, 92, 124>>

GenerateMinLength == 4
CliMinLength == 16
ProbeLimit == 64

None == "None"
CharClass == {"Upper", "Lower", "Digit", "Special"}
ALL == [i \in 0..3 |-> CASE i = 0 -> "Upper" [] i = 1 -> "Lower"
                          [] i = 2 -> "Digit" [] OTHER -> "Special"]
index(c) == CHOOSE i \in 0..3 : ALL[i] = c

Prefix(s, n) == SubSeq(s, 1, IF n < Len(s) THEN n ELSE Len(s))

\* a special pool that also holds the digit 0
Generator_new_digit_in_special(max_attempts) ==
    [uppercase |-> Prefix(UPPERCASE, NUpper),
     lowercase |-> Prefix(LOWERCASE, NLower),
     digits |-> Prefix(DIGITS, NDigit),
     special |-> Prefix(SPECIAL, NSpecial) \o <<48>>,
     max_attempts |-> max_attempts]

Generator_new(max_attempts) ==
    [uppercase |-> Prefix(UPPERCASE, NUpper),
     lowercase |-> Prefix(LOWERCASE, NLower),
     digits |-> Prefix(DIGITS, NDigit),
     special |-> Prefix(SPECIAL, NSpecial),
     max_attempts |-> max_attempts]

class_set(g, c) ==
    CASE c = "Upper" -> g.uppercase
      [] c = "Lower" -> g.lowercase
      [] c = "Digit" -> g.digits
      [] OTHER -> g.special

\* folding that folds nothing
ascii_lower_identity(b) == b

ascii_lower(b) == IF b >= 65 /\ b <= 90 THEN b + 32 ELSE b

to_lower(b) == IF b >= 65 /\ b <= 90 THEN b + 32 ELSE b

(***************************************************************************)
(* The uniqueness engine: a 256-bit set held in 32 bytes.                 *)
(***************************************************************************)
Pow2(k) == CASE k = 0 -> 1 [] k = 1 -> 2 [] k = 2 -> 4 [] k = 3 -> 8
             [] k = 4 -> 16 [] k = 5 -> 32 [] k = 6 -> 64 [] OTHER -> 128

\* a & b and a | b on unsigned values, bit by bit from the lowest
RECURSIVE BitAnd(_, _)
BitAnd(a, b) ==
    IF a = 0 \/ b = 0 THEN 0
    ELSE 2 * BitAnd(a \div 2, b \div 2) + (IF a % 2 = 1 /\ b % 2 = 1 THEN 1 ELSE 0)

RECURSIVE BitOr(_, _)
BitOr(a, b) ==
    IF a = 0 THEN b
    ELSE IF b = 0 THEN a
    ELSE 2 * BitOr(a \div 2, b \div 2) + (IF a % 2 = 1 \/ b % 2 = 1 THEN 1 ELSE 0)

UniqueSet_new == [i \in 0..31 |-> 0]

detect_backend == {"Scalar", "Sse2", "Avx2"}

\* Each insert_* returns the updated bytes and the bool the function returns.
\* bits[idx] = mask instead of bits[idx] |= mask
insert_scalar_overwrite(bits, v) ==
    LET idx == v \div 8
        mask == Pow2(v % 8)
        present == BitAnd(bits[idx], mask) # 0
    IN [data |-> [bits EXCEPT ![idx] = mask], fresh |-> ~present]

\* the upper 128-bit half is never stored back
insert_sse2_low_half(bits, v) ==
    LET idx == v \div 8
        mask == Pow2(v % 8)
        a(i) == bits[i]
        b(i) == bits[16 + i]
        tmp == [i \in 0..31 |-> IF i < 16 THEN a(i) ELSE b(i - 16)]
        present == BitAnd(tmp[idx], mask) # 0
        tmp2 == [tmp EXCEPT ![idx] = BitOr(@, mask)]
        a2(i) == tmp2[i]
    IN [data |-> [i \in 0..31 |-> IF i < 16 THEN a2(i) ELSE b(i - 16)],
        fresh |-> ~present]

insert_scalar(bits, v) ==
    LET idx == v \div 8
        mask == Pow2(v % 8)
        present == BitAnd(bits[idx], mask) # 0
    IN [data |-> [bits EXCEPT ![idx] = BitOr(@, mask)], fresh |-> ~present]

insert_avx2(bits, v) ==
    LET idx == v \div 8
        mask == Pow2(v % 8)
        vec == bits
        tmp == vec
        present == BitAnd(tmp[idx], mask) # 0
        tmp2 == [tmp EXCEPT ![idx] = BitOr(@, mask)]
        new_vec == tmp2
    IN [data |-> new_vec, fresh |-> ~present]

insert_sse2(bits, v) ==
    LET idx == v \div 8
        mask == Pow2(v % 8)
        a(i) == bits[i]            \* the two 128-bit halves, byte by byte
        b(i) == bits[16 + i]
        tmp == [i \in 0..31 |-> IF i < 16 THEN a(i) ELSE b(i - 16)]
        present == BitAnd(tmp[idx], mask) # 0
        tmp2 == [tmp EXCEPT ![idx] = BitOr(@, mask)]
        a2(i) == tmp2[i]
        b2(i) == tmp2[16 + i]
    IN [data |-> [i \in 0..31 |-> IF i < 16 THEN a2(i) ELSE b2(i - 16)],
        fresh |-> ~present]

\* insert that reports every value as new
UniqueSet_insert_always_new(be, bits, v) ==
    [data |-> insert_scalar(bits, v).data, fresh |-> TRUE]

UniqueSet_insert(be, bits, v) ==
    CASE be = "Scalar" -> insert_scalar(bits, v)
      [] be = "Sse2" -> insert_sse2(bits, v)
      [] OTHER -> insert_avx2(bits, v)

\* membership of a byte value in the 256-bit set
Member(bits, v) == BitAnd(bits[v \div 8], Pow2(v % 8)) # 0


(***************************************************************************)
(* Class scheduler: Generator::next_class.                                 *)
(***************************************************************************)
\* counts the classes used instead of those still missing
Missing_counts_used(cu) == Cardinality({i \in 0..3 : cu[i]})

Missing(cu) == Cardinality({i \in 0..3 : ~cu[i]})

\* next_class without the forcing rule
Candidates_no_forcing(prev, pos, len, cu) ==
    LET c0 == [i \in 0..3 |-> TRUE]
    IN IF prev # None THEN [c0 EXCEPT ![index(prev)] = FALSE] ELSE c0

\* the forcing rule with candidates[i] = used[i]
Candidates_inverted(prev, pos, len, cu) ==
    LET remaining == len - pos
        c0 == [i \in 0..3 |-> TRUE]
        c1 == IF prev # None THEN [c0 EXCEPT ![index(prev)] = FALSE] ELSE c0
    IN IF Missing(cu) = remaining THEN [i \in 0..3 |-> cu[i]] ELSE c1

\* next_class without the exclusion of the previous class
Candidates_no_adjacency(prev, pos, len, cu) ==
    LET remaining == len - pos
    IN IF Missing(cu) = remaining THEN [i \in 0..3 |-> ~cu[i]]
       ELSE [i \in 0..3 |-> TRUE]

Candidates(prev, pos, len, cu) ==
    LET remaining == len - pos
        c0 == [i \in 0..3 |-> TRUE]
        c1 == IF prev # None THEN [c0 EXCEPT ![index(prev)] = FALSE] ELSE c0
    IN IF Missing(cu) = remaining THEN [i \in 0..3 |-> ~cu[i]] ELSE c1

Valid(candidates) ==
    LET picked == SelectSeq(<<0, 1, 2, 3>>, LAMBDA i : candidates[i])
    IN [k \in 1..Len(picked) |-> ALL[picked[k]]]

\* The values next_class can return: None, or valid[next_u64() % valid.len()].
next_class(prev, pos, len, cu) ==
    LET valid == Valid(Candidates(prev, pos, len, cu))
    IN IF Len(valid) = 0 THEN {None}
       ELSE {valid[idx + 1] : idx \in 0..(Len(valid) - 1)}

(***************************************************************************)
(* Character sampling: Generator::sample_unique_char.  ProbeLoop(set,     *)
(* bits, k) is the set of results of the last k iterations of the probe   *)
(* loop, over every value the k draws can take and every backend          *)
(* detect_backend() can have chosen for the attempt's UniqueSet.           *)
(***************************************************************************)
\* a probe that inserts the character itself, not its folded value
Probe_unfolded(be, set, bits, idx) ==
    LET ch == set[idx + 1]
        ins == UniqueSet_insert(be, bits, ch)
    IN [ch |-> ch, fresh |-> ins.fresh, data |-> ins.data]

Probe(be, set, bits, idx) ==
    LET ch == set[idx + 1]
        folded == ascii_lower(ch)
        ins == UniqueSet_insert(be, bits, folded)
    IN [ch |-> ch, fresh |-> ins.fresh, data |-> ins.data]

RECURSIVE ProbeLoop(_, _, _)
ProbeLoop(set, bits, k) ==
    IF k = 0 THEN {[ok |-> FALSE, ch |-> 0, data |-> bits]}
    ELSE LET tries == {Probe(be, set, bits, idx) :
                             be \in detect_backend, idx \in 0..(Len(set) - 1)}
             hit == {[ok |-> TRUE, ch |-> t.ch, data |-> t.data] :
                        t \in {t \in tries : t.fresh}}
             miss == {t.data : t \in {t \in tries : ~t.fresh}}
         IN IF miss = {} THEN hit
            ELSE IF miss = {bits}
            \* a rejected probe left the set as it was: each of the k - 1
            \* iterations left sees this state again, with the same draws
            THEN hit \cup {[ok |-> FALSE, ch |-> 0, data |-> bits]}
            ELSE hit \cup UNION {ProbeLoop(set, d, k - 1) : d \in miss}

sample_unique_char(g, c, bits) == ProbeLoop(class_set(g, c), bits, ProbeLimit)

(***************************************************************************)
(* Generator::generate and Generator::try_generate.                        *)
(***************************************************************************)
PoolCapacity(g) == Len(g.uppercase) + Len(g.lowercase) + Len(g.digits) + Len(g.special)

\* the lengths a caller passes
Lengths == 0..MaxLength

\* the length check off by one
UnsatisfiableLength_off_by_one(len) == len < GenerateMinLength - 1

UnsatisfiableLength(len) == len < GenerateMinLength

\* 0..=max_attempts instead of 0..max_attempts
LoopContinues_inclusive(n, max_attempts) == n <= max_attempts

LoopContinues(n, max_attempts) == n < max_attempts

\* a retry loop whose counter never advances
NextAttempt_stuck(n) == n

NextAttempt(n) == n + 1

\* 0..length-1 instead of 0..length
PositionInRange_short(pos, len) == pos + 1 < len

PositionInRange(pos, len) == pos < len

\* marks every class used, not only c
MarkUsed_all(cu, c) == [i \in 0..3 |-> TRUE]

MarkUsed(cu, c) == [cu EXCEPT ![index(c)] = TRUE]

from_utf8_ok(bytes) == \A i \in 1..Len(bytes) : bytes[i] < 128

AllUsed(cu) == \A i \in 0..3 : cu[i]

\* try_generate's locals, as one value
Locals == [used |-> used, result |-> result, prev_class |-> prev_class,
           class_used |-> class_used, position |-> position]

\* locals that outlive the attempt
FreshLocals_stale == Locals

\* their value at entry (lines 89-94)
FreshLocals ==
    [used |-> UniqueSet_new, result |-> <<>>, prev_class |-> None,
     class_used |-> [i \in 0..3 |-> FALSE], position |-> 0]

SetLocals(st) ==
    /\ used' = st.used
    /\ result' = st.result
    /\ prev_class' = st.prev_class
    /\ class_used' = st.class_used
    /\ position' = st.position

\* One pass through the body of try_generate's for loop from locals st, over
\* every value the draws can take: none = the ? operator returned None;
\* drew = rng.next_u64() was called.
LoopBody(g, len, st) ==
    UNION {IF c = None
           THEN {[none |-> TRUE, drew |-> FALSE, st |-> st]}
           ELSE {IF o.ok
                 THEN [none |-> FALSE, drew |-> TRUE,
                       st |-> [used |-> o.data,
                               result |-> Append(st.result, o.ch),
                               prev_class |-> c,
                               class_used |-> MarkUsed(st.class_used, c),
                               position |-> st.position + 1]]
                 ELSE [none |-> TRUE, drew |-> TRUE, st |-> st]
                 : o \in sample_unique_char(g, c, st.used)}
           : c \in next_class(st.prev_class, st.position, len, st.class_used)}

\* The return after the loop (lines 105-109)
Finished(st) == AllUsed(st.class_used) /\ from_utf8_ok(st.result)

\* Every Some(pw) a try_generate(len) call can return once its locals are st.
RECURSIVE TryGenerateFrom(_, _, _)
TryGenerateFrom(g, len, st) ==
    IF PositionInRange(st.position, len)
    THEN UNION {IF r.none THEN {} ELSE TryGenerateFrom(g, len, r.st)
                : r \in LoopBody(g, len, st)}
    ELSE IF Finished(st) THEN {st.result} ELSE {}

try_generate(g, len) == TryGenerateFrom(g, len, FreshLocals)

\* try_generate returns None: back to generate's for loop
ReturnNone ==
    /\ dead_ends' = dead_ends + 1
    /\ pc' = "loop"
    /\ SetLocals(FreshLocals)
    /\ UNCHANGED <<outcome, password>>

\* no generate call made yet, try_generate's locals at their entry values
EngineIdle ==
    /\ length = 0
    /\ attempts = 0
    /\ dead_ends = 0
    /\ outcome = None
    /\ password = <<>>
    /\ drew = FALSE
    /\ used = UniqueSet_new
    /\ result = <<>>
    /\ prev_class = None
    /\ class_used = [i \in 0..3 |-> FALSE]
    /\ position = 0

\* the variables of main while main is not the program modelled
MainIdle ==
    /\ args = [length |-> <<>>, count |-> <<>>, max_retries |-> <<>>]
    /\ config = <<>>
    /\ iter = 0
    /\ stdout = <<>>
    /\ exit_code = -1
    /\ results = <<>>

TrackerIdle ==
    /\ tracker = [be \in detect_backend |-> UniqueSet_new]
    /\ t_in = -1
    /\ t_ret = [be \in detect_backend |-> FALSE]

SamplerIdle ==
    /\ s_class = None
    /\ s_before = UniqueSet_new
    /\ probes = 0
    /\ s_ret = <<>>

Init ==
    /\ gen \in {Generator_new(n) : n \in 0..MaxAttempts}
    /\ pc = "idle"
    /\ length = 0
    /\ attempts = 0
    /\ dead_ends = 0
    /\ outcome = None
    /\ password = <<>>
    /\ drew = FALSE
    /\ used = UniqueSet_new
    /\ result = <<>>
    /\ prev_class = None
    /\ class_used = [i \in 0..3 |-> FALSE]
    /\ position = 0
    /\ MainIdle
    /\ TrackerIdle
    /\ SamplerIdle

\* Entry of generate(len): the length check.
generate_call(len) ==
    /\ length' = len
    /\ IF UnsatisfiableLength(len)
       THEN outcome' = "UnsatisfiableLength" /\ pc' = "done"
       ELSE outcome' = None /\ pc' = "loop"
    /\ attempts' = 0
    /\ dead_ends' = 0
    /\ drew' = FALSE
    /\ password' = <<>>
    /\ UNCHANGED <<gen, attemptVars>>

\* A caller of the library invokes generate(len).
generate ==
    /\ pc \in {"idle", "done"}
    /\ \E len \in Lengths : generate_call(len)
    /\ UNCHANGED <<mainVars, trackerVars, samplerVars>>

\* Head of generate's for loop: start the next attempt or give up.
generate_loop ==
    /\ pc = "loop"
    /\ IF LoopContinues(attempts, gen.max_attempts)
       THEN /\ attempts' = NextAttempt(attempts)
            /\ SetLocals(FreshLocals)
            /\ pc' = "try_generate"
            /\ UNCHANGED outcome
       ELSE /\ outcome' = "ExhaustedAttempts"
            /\ pc' = "done"
            /\ UNCHANGED <<attempts, attemptVars>>
    /\ UNCHANGED <<gen, length, dead_ends, password, drew>>
    /\ UNCHANGED <<mainVars, trackerVars, samplerVars>>

\* One pass through try_generate's for loop: the next_class call, the
\* sample_unique_char call and the rest of the body; or, after the last
\* position, the class_used check and the return.
try_generate_position ==
    /\ pc = "try_generate"
    /\ IF PositionInRange(position, length)
       THEN \E r \in LoopBody(gen, length, Locals) :
              /\ drew' = (drew \/ r.drew)
              /\ IF r.none
                 THEN ReturnNone
                 ELSE /\ SetLocals(r.st)
                      /\ UNCHANGED <<pc, dead_ends, outcome, password>>
       ELSE IF Finished(Locals)
            THEN /\ outcome' = "Ok"
                 /\ password' = result
                 /\ pc' = "done"
                 /\ SetLocals(FreshLocals)
                 /\ UNCHANGED <<dead_ends, drew>>
            ELSE ReturnNone /\ UNCHANGED drew
    /\ UNCHANGED <<gen, length, attempts>>
    /\ UNCHANGED <<mainVars, trackerVars, samplerVars>>

Engine == generate_loop \/ try_generate_position

Next == generate \/ generate_loop \/ try_generate_position

Spec == Init /\ [][Next]_vars


(***************************************************************************)
(* Vocabulary of the properties.                                           *)
(***************************************************************************)
Chars(pool) == {pool[i] : i \in 1..Len(pool)}

InPool(g, c, ch) == ch \in Chars(class_set(g, c))

\* the classes whose pool holds ch
ClassesOf(g, ch) == {c \in CharClass : InPool(g, c, ch)}

NoFoldRepeat(s) ==
    \A i, j \in 1..Len(s) : i # j => ascii_lower(s[i]) # ascii_lower(s[j])

NoAdjacentClass(g, s) ==
    \A i \in 2..Len(s) : ClassesOf(g, s[i]) \cap ClassesOf(g, s[i - 1]) = {}

\* position i (from 1) of s was filled under the forcing rule of a length-len attempt
ForcedAt(g, s, i, len) ==
    LET before == UNION {ClassesOf(g, s[j]) : j \in 1..(i - 1)}
    IN 4 - Cardinality(before) = len - (i - 1)

\* number of distinct case-folded characters over the four pools of g
FoldedCapacity(g) ==
    Cardinality({ascii_lower(ch) : ch \in UNION {Chars(class_set(g, c)) : c \in CharClass}})

Returned == pc = "done"

\* C1: a returned password has no two characters equal under ASCII case
\* folding; the same holds of the characters an attempt has placed so far.
C1_NoCaseFoldedRepeat ==
    /\ outcome = "Ok" => NoFoldRepeat(password)
    /\ NoFoldRepeat(result)

\* C1 witness: a returned password holding an uppercase and a lowercase letter
C1_Witness ==
    /\ Returned /\ outcome = "Ok"
    /\ \E i, j \in 1..Len(password) :
          /\ InPool(gen, "Upper", password[i])
          /\ InPool(gen, "Lower", password[j])

\* C2: no two adjacent characters of a returned password come from the same
\* class, forced positions included; the same holds of the characters an
\* attempt has placed so far.
C2_NoAdjacentSameClass ==
    /\ outcome = "Ok" => NoAdjacentClass(gen, password)
    /\ NoAdjacentClass(gen, result)

\* C2 witness: a returned password with a forced position after its first
C2_Witness ==
    /\ Returned /\ outcome = "Ok"
    /\ \E i \in 2..Len(password) : ForcedAt(gen, password, i, length)

\* C3: each of Upper, Lower, Digit and Special supplied at least one
\* character of a returned password.
C3_AllClassesPresent ==
    outcome = "Ok" =>
        \A c \in CharClass : \E i \in 1..Len(password) : InPool(gen, c, password[i])

\* C3 witness: a returned password whose last character is the only one of
\* its class
C3_Witness ==
    /\ Returned /\ outcome = "Ok"
    /\ Len(password) >= 4
    /\ \A i \in 1..(Len(password) - 1) :
          ClassesOf(gen, password[i]) \cap ClassesOf(gen, password[Len(password)]) = {}

\* C4: a returned password has exactly `length` characters; no error carries
\* characters, an attempt's Vec holds one character per filled position, and
\* nothing is left of an attempt once it has returned.
C4_ExactLength ==
    /\ outcome = "Ok" => Len(password) = length
    /\ outcome # "Ok" => password = <<>>
    /\ pc = "try_generate" => Len(result) = position /\ position <= length
    /\ pc # "try_generate" => result = <<>>

\* C4 witness: a full-length password returned by the attempt that followed
\* a dead end
C4_Witness ==
    /\ Returned /\ outcome = "Ok"
    /\ dead_ends = 1 /\ attempts = 2
    /\ Len(password) = length

\* C5 as claimed: every length below 16 fails with the length error before
\* any attempt and without a randomness draw.
C5_Original ==
    (pc # "idle" /\ length < CliMinLength) =>
        /\ attempts = 0
        /\ ~drew
        /\ Returned /\ outcome = "UnsatisfiableLength"

\* C5 amended: every length below 4 fails with UnsatisfiableLength before
\* any attempt and without a randomness draw.
C5_BelowGenerateMinimum ==
    (pc # "idle" /\ length < GenerateMinLength) =>
        /\ attempts = 0
        /\ ~drew
        /\ Returned /\ outcome = "UnsatisfiableLength"

\* C5 witness: generate(3) has returned the length error
C5_Witness ==
    /\ Returned /\ length = GenerateMinLength - 1
    /\ outcome = "UnsatisfiableLength"
    /\ gen.max_attempts > 0

\* C6 as claimed: every length above the total pool capacity fails at once
\* with the capacity error, with no attempt and no randomness draw.
C6_CapacityRejected ==
    (pc # "idle" /\ length > PoolCapacity(gen)) =>
        /\ attempts = 0
        /\ ~drew
        /\ Returned /\ outcome = "LengthExceedsCapacity"

\* C7: a generate call runs at most max_attempts attempts; Ok comes from the
\* first attempt that succeeds, every earlier one having dead-ended, and no
\* attempt runs after it; ExhaustedAttempts comes only after exactly
\* max_attempts attempts, all dead-ended.
C7_RetryBound ==
    /\ attempts <= gen.max_attempts
    /\ dead_ends <= attempts
    /\ outcome = "Ok" => attempts >= 1 /\ dead_ends = attempts - 1
    /\ outcome = "ExhaustedAttempts" =>
          attempts = gen.max_attempts /\ dead_ends = gen.max_attempts
    /\ Returned => ~ENABLED Engine

\* C7 witness: a satisfiable length exhausted a retry bound of two
C7_Witness ==
    /\ Returned /\ outcome = "ExhaustedAttempts"
    /\ length = GenerateMinLength
    /\ gen.max_attempts = 2 /\ attempts = 2

Running == pc \in {"loop", "try_generate"}

\* what is left of the running call: the attempts not yet started, each
\* worth length + 3 steps, and the positions the current attempt has to fill
Rank ==
    CASE pc = "loop" -> (gen.max_attempts - attempts) * (length + 3) + 1
      [] pc = "try_generate" ->
            (gen.max_attempts - attempts) * (length + 3) + 2 + (length - position)
      [] OTHER -> 0

\* C8: every generate call returns: a running call always has a next step,
\* and each of its steps, a dead end included, strictly lowers a measure
\* that is never negative, so no loop runs unboundedly.
C8_Terminates ==
    /\ [](Rank >= 0)
    /\ []((pc = "try_generate" /\ PositionInRange(position, length))
            => LoopBody(gen, length, Locals) # {})
    /\ [][Running => Rank' < Rank]_vars

\* C8 witness: a call returned after every one of its attempts dead-ended
\* on a length no attempt can fill
C8_Witness ==
    /\ Returned /\ outcome = "ExhaustedAttempts"
    /\ length > FoldedCapacity(gen)
    /\ dead_ends = MaxAttempts /\ MaxAttempts > 0

\* C9 as claimed: a request for as many characters as the four pools hold is
\* not rejected and an attempt that returns a full-length password exists.
C9_Original ==
    /\ (Returned /\ length = PoolCapacity(gen)) => outcome # "UnsatisfiableLength"
    /\ pc = "idle" => try_generate(gen, PoolCapacity(gen)) # {}

\* C9 amended: a request for as many characters as the four pools hold is
\* not rejected up front, but no attempt can fill it: every attempt dead-ends
\* and the call returns ExhaustedAttempts after max_attempts attempts.
C9_CapacityLengthNeverSucceeds ==
    /\ pc = "idle" => try_generate(gen, PoolCapacity(gen)) = {}
    /\ (Returned /\ length = PoolCapacity(gen)) =>
          /\ outcome = "ExhaustedAttempts"
          /\ attempts = gen.max_attempts
          /\ dead_ends = gen.max_attempts

\* C9 witness: such a request ran an attempt and ended in ExhaustedAttempts
C9_Witness ==
    /\ Returned /\ length = PoolCapacity(gen)
    /\ outcome = "ExhaustedAttempts"
    /\ attempts >= 1 /\ drew

\* the pools as the program has them, untruncated
FullPools ==
    [uppercase |-> UPPERCASE, lowercase |-> LOWERCASE, digits |-> DIGITS,
     special |-> SPECIAL, max_attempts |-> 0]

unique_ascii_case_insensitive(bytes) ==
    \A i \in 1..Len(bytes) : \A j \in (i + 1)..Len(bytes) :
        to_lower(bytes[i]) # to_lower(bytes[j])

NonEmptyPools(g) == \A c \in CharClass : Len(class_set(g, c)) > 0

FoldDisjoint(g, c, d) ==
    {ascii_lower(ch) : ch \in Chars(class_set(g, c))}
        \cap {ascii_lower(ch) : ch \in Chars(class_set(g, d))} = {}

FoldDisjointPools(g) ==
    /\ NonEmptyPools(g)
    /\ \A c, d \in CharClass : c # d => FoldDisjoint(g, c, d)

DisjointExceptLetters(g) ==
    /\ NonEmptyPools(g)
    /\ \A c, d \in CharClass :
          c # d => Chars(class_set(g, c)) \cap Chars(class_set(g, d)) = {}
    /\ \A c \in CharClass : unique_ascii_case_insensitive(class_set(g, c))
    /\ \A c, d \in CharClass :
          (c # d /\ {c, d} # {"Upper", "Lower"}) => FoldDisjoint(g, c, d)
    /\ ~FoldDisjoint(g, "Upper", "Lower")

FullPoolsFoldDisjoint == FoldDisjointPools(FullPools)

FullPoolsDisjointExceptLetters == DisjointExceptLetters(FullPools)

\* C10 as claimed: the pools are non-empty and pairwise disjoint under case
\* folding, those the generator holds and the program's full ones alike.
C10_Original == FoldDisjointPools(gen) /\ FullPoolsFoldDisjoint

\* C10 amended: the pools are non-empty, pairwise disjoint as byte values
\* and free of case-folded repeats within a pool; under case folding every
\* pair of pools is disjoint except Upper and Lower.
C10_PoolsDisjointExceptLetters ==
    DisjointExceptLetters(gen) /\ FullPoolsDisjointExceptLetters

\* C10 witness: an attempt holds an uppercase letter whose lowercase form is
\* in the Lower pool and is therefore taken
C10_Witness ==
    /\ pc = "try_generate"
    /\ \E i \in 1..Len(result) :
          /\ InPool(gen, "Upper", result[i])
          /\ InPool(gen, "Lower", ascii_lower(result[i]))
          /\ Member(used, ascii_lower(result[i]))


(***************************************************************************)
(* The command line program: Config::parse and main (src/main.rs).  A     *)
(* flag is absent (<<>>) or carries a number (<<n>>); unknown arguments,  *)
(* --help and non-numeric values are left out.  try_generate is one step: *)
(* with the program's full pools it can return Some only while the length *)
(* is within the number of distinct case-folded characters, and it can    *)
(* always return None.  The password's bytes are not modelled here.        *)
(***************************************************************************)
MaxCount == 2

DefaultCount == 1
DefaultMaxRetries == 256
DefaultMaxAttempts == 256

Generator_default == Generator_new(DefaultMaxAttempts)

FullFoldedCapacity == FoldedCapacity(FullPools)

\* the lengths given on the command line: around each threshold of the code
CliLengths ==
    {0, CliMinLength - 1, CliMinLength, CliMinLength + 1,
     FullFoldedCapacity, FullFoldedCapacity + 1, DefaultMaxRetries + 1}

Option(S) == {<<>>} \cup {<<v>> : v \in S}

\* parse_nz on a numeric value: <<>> for Err, <<n>> for Ok(n)
parse_nz(parsed) == IF parsed = 0 THEN <<>> ELSE <<parsed>>

\* a default of 1 retry where the program has 256
unwrap_or_retries_one(retries) == IF retries = <<>> THEN DefaultCount ELSE retries[1]

unwrap_or_retries(retries) == IF retries = <<>> THEN DefaultMaxRetries ELSE retries[1]

unwrap_or_count(count) == IF count = <<>> THEN DefaultCount ELSE count[1]

\* Config::parse: <<>> for Err, <<config>> for Ok(config)
Config_parse(a) ==
    LET given == {f \in {"length", "count", "max_retries"} : a[f] # <<>>}
    IN IF \E f \in given : parse_nz(a[f][1]) = <<>> THEN <<>>
       ELSE IF a.length = <<>> THEN <<>>
       ELSE IF a.length[1] < CliMinLength THEN <<>>
       ELSE <<[length |-> a.length[1],
               count |-> unwrap_or_count(a.count),
               max_retries |-> unwrap_or_retries(a.max_retries)]>>

\* only the length error counts as a failure
is_err_length_only(res) == res = "UnsatisfiableLength"

is_err(res) == res # "Ok"

\* what one try_generate(len) call can return
try_generate_result(len) ==
    IF len <= FullFoldedCapacity THEN {"Some", "None"} ELSE {"None"}

MainInit ==
    /\ args \in [length : Option(CliLengths), count : Option(0..MaxCount),
                  max_retries : Option(0..MaxAttempts)]
    /\ config = <<>>
    /\ iter = 0
    /\ stdout = <<>>
    /\ exit_code = -1
    /\ results = <<>>
    /\ gen = <<>>
    /\ pc = "main"
    /\ EngineIdle
    /\ TrackerIdle
    /\ SamplerIdle

\* main, lines 74-83: parse the command line, build the generator
main_parse ==
    /\ pc = "main"
    /\ LET r == Config_parse(args)
       IN IF r = <<>>
          THEN /\ exit_code' = 1
               /\ pc' = "exit"
               /\ UNCHANGED <<config, gen>>
          ELSE /\ config' = r
               /\ gen' = Generator_new(r[1].max_retries)
               /\ pc' = "batch"
               /\ UNCHANGED exit_code
    /\ UNCHANGED <<args, iter, stdout, results>>
    /\ UNCHANGED <<length, attempts, dead_ends, outcome, password, drew, attemptVars>>
    /\ UNCHANGED <<trackerVars, samplerVars>>

\* head of the batch loop, lines 85-86 and 95
main_loop ==
    /\ pc = "batch"
    /\ IF iter < config[1].count
       THEN generate_call(config[1].length) /\ UNCHANGED exit_code
       ELSE /\ exit_code' = 0
            /\ pc' = "exit"
            /\ UNCHANGED <<gen, length, attempts, dead_ends, outcome, password,
                           drew, attemptVars>>
    /\ UNCHANGED <<args, config, iter, stdout, results>>
    /\ UNCHANGED <<trackerVars, samplerVars>>

\* one whole try_generate call inside generate's loop
try_generate_call ==
    /\ pc = "try_generate"
    /\ \E r \in try_generate_result(length) :
          IF r = "Some"
          THEN /\ outcome' = "Ok"
               /\ pc' = "done"
               /\ UNCHANGED <<dead_ends, password, attemptVars>>
          ELSE ReturnNone
    /\ drew' = TRUE
    /\ UNCHANGED <<gen, length, attempts>>
    /\ UNCHANGED <<mainVars, trackerVars, samplerVars>>

\* the match on generate's result, lines 86-92
main_match ==
    /\ pc = "done"
    /\ results' = Append(results, outcome)
    /\ IF is_err(outcome)
       THEN /\ exit_code' = 2
            /\ pc' = "exit"
            /\ UNCHANGED <<iter, stdout>>
       ELSE /\ stdout' = Append(stdout, iter)
            /\ iter' = iter + 1
            /\ pc' = "batch"
            /\ UNCHANGED exit_code
    /\ UNCHANGED <<args, config>>
    /\ UNCHANGED <<gen, length, attempts, dead_ends, outcome, password, drew,
                   attemptVars>>
    /\ UNCHANGED <<trackerVars, samplerVars>>

MainNext ==
    main_parse \/ main_loop \/ generate_loop \/ try_generate_call \/ main_match

MainSpec == MainInit /\ [][MainNext]_vars

(***************************************************************************)
(* Properties of the command line program (MainSpec).                      *)
(***************************************************************************)
\* max(length, 16)
RetryFloor(len) == IF len > CliMinLength THEN len ELSE CliMinLength

\* the command line gave no --max-retries and the generator is built
NoCeiling == config # <<>> /\ args.max_retries = <<>>

\* a generate call is running or has just returned
InCall == pc \in {"loop", "try_generate", "done"}

\* C11 as claimed: with no explicit retry ceiling the retry bound of a
\* generate call lies between max(length,16) and 100*max(length,16) and comes
\* from the lifetime success rate: ceil(1/rate) * max(length,16), the rate
\* being 0.5 while no attempt has been recorded.
C11_Original ==
    (NoCeiling /\ InCall) =>
        /\ gen.max_attempts >= RetryFloor(length)
        /\ gen.max_attempts <= 100 * RetryFloor(length)
        /\ results = <<>> => gen.max_attempts = 2 * RetryFloor(length)

\* C11 amended: with no explicit retry ceiling the retry bound of every
\* generate call is the constant 256, the one Generator::default() holds,
\* whatever the calls before it returned; a call gives up after exactly 256
\* attempts; the bound lies between max(length,16) and 100*max(length,16)
\* exactly for the lengths up to 256.
C11_FixedRetryBound ==
    /\ NoCeiling =>
          /\ gen.max_attempts = DefaultMaxRetries
          /\ gen.max_attempts = Generator_default.max_attempts
    /\ (NoCeiling /\ InCall) =>
          /\ attempts <= DefaultMaxRetries
          /\ outcome = "ExhaustedAttempts" =>
                attempts = DefaultMaxRetries /\ dead_ends = DefaultMaxRetries
          /\ (length <= DefaultMaxRetries) <=>
                /\ gen.max_attempts >= RetryFloor(length)
                /\ gen.max_attempts <= 100 * RetryFloor(length)

\* C11 witness: after a first password was produced, the second call gives
\* up after 256 attempts
C11_Witness ==
    /\ NoCeiling
    /\ pc = "done"
    /\ Len(results) = 1 /\ results[1] = "Ok"
    /\ outcome = "ExhaustedAttempts"
    /\ attempts = DefaultMaxRetries

AllOk(rs) == \A k \in 1..Len(rs) : rs[k] = "Ok"

\* the lines printed by passes 0 .. n-1, in order
Printed(n) == [k \in 1..n |-> k - 1]

\* C12: the first generate call that fails ends main with exit code 2 at
\* once, with the passwords of the earlier passes printed and no further
\* generate call; main returns 0 only after count calls that all succeeded,
\* each password printed in order.
C12_FirstFailureFatal ==
    /\ exit_code = 2 =>
          /\ Len(results) = iter + 1
          /\ results[iter + 1] \in {"UnsatisfiableLength", "ExhaustedAttempts"}
          /\ AllOk(SubSeq(results, 1, iter))
          /\ stdout = Printed(iter)
    /\ exit_code = 0 =>
          /\ Len(results) = config[1].count
          /\ AllOk(results)
          /\ stdout = Printed(config[1].count)
    /\ (\E k \in 1..Len(results) : results[k] # "Ok") =>
          pc = "exit" /\ exit_code = 2
    /\ pc = "exit" => ~ENABLED MainNext

\* C12 witness: the first of two calls fails, the second is never made
C12_Witness ==
    /\ exit_code = 2
    /\ config[1].count = 2
    /\ Len(results) = 1

(***************************************************************************)
(* The uniqueness engine alone: one UniqueSet per backend, all fed the    *)
(* same bytes from the empty state.  The bytes include two that share a   *)
(* byte of the bitmap and bytes in both 128-bit halves.                    *)
(***************************************************************************)
NTrackerBytes == 5

TrackerBytes == {0, 1, 255} \cup {(37 * k) % 256 : k \in 1..NTrackerBytes}

TrackerInit ==
    /\ TrackerIdle
    /\ gen = <<>>
    /\ pc = "idle"
    /\ EngineIdle
    /\ MainIdle
    /\ SamplerIdle

\* set.insert(v) on each of the three sets
tracker_insert ==
    /\ \E v \in TrackerBytes :
          LET ins == [be \in detect_backend |-> UniqueSet_insert(be, tracker[be], v)]
          IN /\ tracker' = [be \in detect_backend |-> ins[be].data]
             /\ t_ret' = [be \in detect_backend |-> ins[be].fresh]
             /\ t_in' = v
    /\ UNCHANGED <<engineVars, mainVars, samplerVars>>

TrackerNext == tracker_insert

TrackerSpec == TrackerInit /\ [][TrackerNext]_vars

C14_CoverageFeasible ==
    pc = "try_generate" =>
        /\ Missing(class_used) <= length - position
        /\ ~PositionInRange(position, length) =>
              /\ \A i \in 0..3 : class_used[i]
              /\ Finished(Locals)

\* C14 witness: an attempt that has filled every position, with all four
\* classes used
C14_Witness ==
    /\ pc = "try_generate"
    /\ length >= GenerateMinLength
    /\ position = length
    /\ Len(result) = length
    /\ AllUsed(class_used)

\* the classes the attempt still lacks are exactly as many as the positions left
Forced == Cardinality({i \in 0..3 : ~class_used[i]}) = length - position

\* C15: when the classes not yet used are as many as the positions left,
\* next_class returns a class, one not yet used in the attempt and not the
\* class of the previous position.
C15_ForcedClassUnused ==
    (pc = "try_generate" /\ PositionInRange(position, length) /\ Forced) =>
        \A c \in next_class(prev_class, position, length, class_used) :
            /\ c # None
            /\ ~class_used[index(c)]
            /\ c # prev_class

\* C15 witness: forcing sets in after a class was used twice, with a previous
\* class to keep away from
C15_Witness ==
    /\ pc = "try_generate"
    /\ PositionInRange(position, length)
    /\ Forced
    /\ length > GenerateMinLength
    /\ prev_class # None

\* C16: every attempt, the first of a call and every retry alike, starts
\* with an empty tracker, no character placed, no previous class and no class
\* marked used; nothing a former attempt or call recorded is carried over.
C16_AttemptStartsFresh ==
    [][(pc # "try_generate" /\ pc' = "try_generate") =>
          /\ used' = UniqueSet_new
          /\ \A v \in 0..255 : ~Member(used', v)
          /\ result' = <<>>
          /\ prev_class' = None
          /\ class_used' = [i \in 0..3 |-> FALSE]
          /\ position' = 0]_vars

\* C16 witness: a retry, after an attempt that dead-ended, about to fill
\* position 0 with nothing recorded
C16_Witness ==
    /\ pc = "try_generate"
    /\ attempts = 2 /\ dead_ends = 1
    /\ position = 0
    /\ used = UniqueSet_new
    /\ result = <<>>

\* C19: in every state of an attempt with a position left to fill,
\* next_class has a class to return and never returns None; an attempt is
\* abandoned only at such a position, after randomness was drawn, that is
\* by sample_unique_char.
C19_NextClassNeverNone ==
    /\ []((pc = "try_generate" /\ PositionInRange(position, length)) =>
             /\ None \notin next_class(prev_class, position, length, class_used)
             /\ next_class(prev_class, position, length, class_used) # {})
    /\ [][(pc = "try_generate" /\ pc' = "loop") =>
             /\ PositionInRange(position, length)
             /\ None \notin next_class(prev_class, position, length, class_used)
             /\ drew']_vars

\* C19 witness: an attempt of the shortest length dead-ended
C19_Witness ==
    /\ pc = "loop"
    /\ length = GenerateMinLength
    /\ dead_ends = 1
    /\ drew

\* C20: a length above the number of distinct case-folded characters of the
\* pools (63 of the 89 characters of the program's pools) is not rejected up
\* front, no attempt at it succeeds, and generate returns ExhaustedAttempts
\* after max_attempts attempts, all of them dead ends.
C20_OverFoldedCapacityExhausts ==
    /\ FullFoldedCapacity = 63
    /\ PoolCapacity(FullPools) = 89
    /\ (pc # "idle" /\ length > FoldedCapacity(gen) /\ length >= GenerateMinLength) =>
          /\ outcome \notin {"Ok", "UnsatisfiableLength"}
          /\ Returned =>
                /\ outcome = "ExhaustedAttempts"
                /\ attempts = gen.max_attempts
                /\ dead_ends = gen.max_attempts

\* C20 witness: an attempt at such a length has placed every distinct
\* case-folded character of the pools and still has positions to fill
C20_Witness ==
    /\ pc = "try_generate"
    /\ length > FoldedCapacity(gen)
    /\ position = FoldedCapacity(gen)
    /\ \A c \in CharClass : \A ch \in Chars(class_set(gen, c)) :
          Member(used, ascii_lower(ch))

(***************************************************************************)
(* sample_unique_char alone, one pass of its probe loop per step, called  *)
(* with any class and any tracker an attempt can hold: the folded values  *)
(* of any set of pool characters.                                          *)
(***************************************************************************)
FoldedChars(g) ==
    {ascii_lower(ch) : ch \in UNION {Chars(class_set(g, c)) : c \in CharClass}}

\* the UniqueSet after inserting the values of S into an empty one
RECURSIVE TrackerOf(_)
TrackerOf(S) ==
    IF S = {} THEN UniqueSet_new
    ELSE LET v == CHOOSE x \in S : TRUE
         IN insert_scalar(TrackerOf(S \ {v}), v).data

\* 0..=64 instead of 0..64
ProbesLeft_inclusive(n) == n <= ProbeLimit

ProbesLeft(n) == n < ProbeLimit

SamplerInit ==
    /\ gen = Generator_new(0)
    /\ s_class \in CharClass
    /\ s_before \in {TrackerOf(S) : S \in SUBSET FoldedChars(Generator_new(0))}
    /\ used = s_before
    /\ probes = 0
    /\ s_ret = <<>>
    /\ pc = "sample"
    /\ length = 0
    /\ attempts = 0
    /\ dead_ends = 0
    /\ outcome = None
    /\ password = <<>>
    /\ drew = FALSE
    /\ result = <<>>
    /\ prev_class = None
    /\ class_used = [i \in 0..3 |-> FALSE]
    /\ position = 0
    /\ MainIdle
    /\ TrackerIdle

\* one pass of the for loop, lines 157-165
sample_probe ==
    /\ pc = "sample"
    /\ ProbesLeft(probes)
    /\ \E be \in detect_backend, idx \in 0..(Len(class_set(gen, s_class)) - 1) :
          LET p == Probe(be, class_set(gen, s_class), used, idx)
          IN /\ used' = p.data
             /\ IF p.fresh
                THEN s_ret' = <<[ok |-> TRUE, ch |-> p.ch]>> /\ pc' = "returned"
                ELSE UNCHANGED <<s_ret, pc>>
    /\ probes' = probes + 1
    /\ drew' = TRUE
    /\ UNCHANGED <<gen, length, attempts, dead_ends, outcome, password,
                   result, prev_class, class_used, position>>
    /\ UNCHANGED <<s_class, s_before>>
    /\ UNCHANGED <<mainVars, trackerVars>>

\* the loop ran out: None, line 167
sample_none ==
    /\ pc = "sample"
    /\ ~ProbesLeft(probes)
    /\ s_ret' = <<[ok |-> FALSE, ch |-> 0]>>
    /\ pc' = "returned"
    /\ UNCHANGED <<gen, length, attempts, dead_ends, outcome, password, drew,
                   attemptVars>>
    /\ UNCHANGED <<s_class, s_before, probes>>
    /\ UNCHANGED <<mainVars, trackerVars>>

SamplerNext == sample_probe \/ sample_none

SamplerSpec == SamplerInit /\ [][SamplerNext]_vars

\* every character of the class's pool had its folded value in the tracker
\* when sample_unique_char was called
PoolExhausted ==
    \A ch \in Chars(class_set(gen, s_class)) : Member(s_before, ascii_lower(ch))

\* C17: sample_unique_char makes at most 64 probes.  If every character of
\* the class's pool has its folded value in the tracker, the call returns
\* None and the tracker stays as it was; a None leaves the tracker unchanged
\* in any case.  When it returns Some(ch), ch is in the class's pool, its
\* folded value was absent before the call, is present after it, and is the
\* only value added.
C17_SampleContract ==
    /\ probes <= 64
    /\ PoolExhausted =>
          /\ used = s_before
          /\ pc = "returned" => s_ret = <<[ok |-> FALSE, ch |-> 0]>>
    /\ (pc = "returned" /\ ~s_ret[1].ok) => used = s_before
    /\ (pc = "returned" /\ s_ret[1].ok) =>
          /\ InPool(gen, s_class, s_ret[1].ch)
          /\ ~Member(s_before, ascii_lower(s_ret[1].ch))
          /\ Member(used, ascii_lower(s_ret[1].ch))
          /\ \A w \in 0..255 :
                w # ascii_lower(s_ret[1].ch) => (Member(used, w) <=> Member(s_before, w))

\* C17 witness: the pool was exhausted and the call returned None after 64
\* probes
C17_Witness ==
    /\ pc = "returned"
    /\ PoolExhausted
    /\ ~s_ret[1].ok
    /\ probes = 64
    /\ used = s_before

\* C18: on every backend, insert(v) returns true exactly when v was not a
\* member before the call, leaves v a member, and leaves the membership of
\* every other value as it was; so no insert ever removes a member.
C18_InsertContract ==
    [][\A be \in detect_backend :
          /\ t_ret'[be] <=> ~Member(tracker[be], t_in')
          /\ Member(tracker'[be], t_in')
          /\ \A w \in 0..255 :
                /\ w # t_in' => (Member(tracker'[be], w) <=> Member(tracker[be], w))
                /\ Member(tracker[be], w) => Member(tracker'[be], w)]_vars

\* C18 witness: an insert of a value already present returned false, in a
\* set that holds another value in the same byte of the bitmap
C18_Witness ==
    /\ t_in = 0
    /\ ~t_ret["Scalar"]
    /\ Member(tracker["Scalar"], 0)
    /\ Member(tracker["Scalar"], 1)

====
